---- MODULE Spec2Model ----
(***************************************************************************)
(* Model of the RCON protocol engine (src/src/rconProtocol.ts): session    *)
(* state, the connect/authenticate handshake, send() with the main/dummy   *)
(* request pair, handlePacket dispatch, timers, socket events and          *)
(* disconnect().                                                           *)
(*                                                                         *)
(* Strings are sequences of tokens; a token stands for a fixed run of      *)
(* characters (TokLen).  Concatenation is sequence concatenation and       *)
(* String.length is the sum of the token lengths.                          *)
(*                                                                         *)
(* A promise is modelled by the log of the calls made to its resolve and   *)
(* reject functions; its outcome is the first call of the log.             *)
(***************************************************************************)
EXTENDS Integers, Sequences, FiniteSets, TLC

(* ---- bounds ---- *)
MaxEvents == 4   \* send() calls plus received packets that change the state

(* ---- program constants ---- *)
AUTH == 3
AUTH_RESPONSE == 2
COMMAND == 2
RESPONSE == 0
MAX_PACKET_SIZE == 4096

(* ---- strings ---- *)
TokLen(t) ==
  CASE t = "dummy" -> 5
    [] t = "auth" -> 4
    [] t = "list" -> 4
    [] t = "secret" -> 6
    [] t = "blk3996" -> 3996

RECURSIVE StrLen(_)
StrLen(s) == IF s = <<>> THEN 0 ELSE TokLen(Head(s)) + StrLen(Tail(s))

RECURSIVE Join(_)
Join(frags) == IF frags = <<>> THEN <<>> ELSE Head(frags) \o Join(Tail(frags))

EmptyStr == <<>>
DummyCmd == <<"dummy">>
AuthCmd == <<"auth">>
Password == <<"secret">>

(* inputs: the command texts given to send() *)
Commands == {EmptyStr, DummyCmd, AuthCmd, <<"list">>}

Min(S) == CHOOSE x \in S : \A y \in S : x <= y

VARIABLES
  socket,          \* this.socket !== null
  sock,            \* state of the net.Socket object
  authenticated,   \* this.authenticated
  requestId,       \* this.requestId
  pendingRequests, \* this.pendingRequests: id -> entry
  timers,          \* ids whose setTimeout handle is armed
  written,         \* packets written to the socket, in order
  emitted,         \* number of 'error' and 'close' events emitted
  connectCalls,    \* calls of resolve/reject of the connect() promise
  authCalls,       \* calls of resolve/reject of the authenticate() promise
  sendCalls,       \* mainId -> calls of resolve/reject of that send() promise
  reqs,            \* mainId -> values captured by the closures of that send()
  notReady,        \* number of send() calls rejected by the ready check
  pkts,            \* number of packets received that changed the state
  expect,          \* mainId -> RESPONSE bodies that carried mainId on the wire
  phase,           \* mainId -> "open" | "sentinel" | "dead" (wire history)
  stream,          \* bytes the peer sends on the connection
  delivered,       \* number of bytes of stream handed to handleData so far
  responseBuffer,  \* this.responseBuffer
  dispatched,      \* packets passed to handlePacket, in order
  parseErrors,     \* number of 'Error parsing packet' reports
  hung,            \* handleData is in a loop that makes no progress
  args,            \* arguments of a createPacket call
  wire,            \* buffer returned by that call
  parsed,          \* result of parsePacket on that buffer
  client,          \* RconController.client: 0 (null) or the number of a session
  sessions,        \* the RconProtocol objects the controller has created
  unwinding,       \* RconController.disconnect() is suspended at its await
  lastSend,        \* outcome of the last RconController.send()
  terminalConnected,  \* RconTerminal.isConnected
  isReconnecting,     \* RconTerminal.isReconnecting
  reconnectAttempts,  \* RconTerminal.reconnectAttempts
  reconnectDelay,     \* RconTerminal.reconnectDelay (ms)
  reconnectTimeout,   \* delay (ms) of the armed reconnect timer, 0 for null
  link,            \* the session of the terminal's controller: "up" |
                   \*   "half" (open, not authenticated) | "down"
  attempt,         \* controller.connect() of attemptReconnect: "none" |
                   \*   "connecting" | "authenticating"
  isExecutingCommand, \* RconTerminal.isExecutingCommand: executeCommand is
                   \*   suspended at controller.send()
  failures,        \* failed attempts since the last success or /reconnect
  scheduled,       \* delays (ms) of the retry timers armed since the last
                   \*   detected loss or /reconnect
  server,          \* the RCON server: "up" (accepts connections) | "down"
  userOff          \* the user's last connection command was /disconnect

(* state of the session *)
evars == <<socket, sock, authenticated, requestId, pendingRequests, timers,
           written, emitted, connectCalls, authCalls, sendCalls, reqs,
           notReady, pkts, expect, phase>>

(* state of the packet codec *)
cvars == <<stream, delivered, responseBuffer, dispatched, parseErrors, hung,
           args, wire, parsed>>

(* state of the controller and its sessions *)
kvars == <<client, sessions, unwinding, lastSend>>

(* state of the terminal *)
tvars == <<terminalConnected, isReconnecting, reconnectAttempts,
           reconnectDelay, reconnectTimeout, link, attempt,
           isExecutingCommand, failures, scheduled, server, userOff>>

hvars == <<kvars, tvars>>

vars == <<evars, cvars, hvars>>

Resolve(v) == [kind |-> "resolve", value |-> v]
Reject(e) == [kind |-> "reject", value |-> e]

EmptyMap == [x \in {} |-> 0]
Remove(f, ks) == [x \in (DOMAIN f) \ ks |-> f[x]]
Put(f, k, v) == [x \in (DOMAIN f) \cup {k} |-> IF x = k THEN v ELSE f[x]]

(* the part of the state the request callbacks act on *)
Cur ==
  [pending |-> pendingRequests, timers |-> timers,
   authenticated |-> authenticated, authCalls |-> authCalls,
   connectCalls |-> connectCalls, sendCalls |-> sendCalls]

(* variant: isConnected() looks at the socket handle only *)
isConnectedSocketOnly == socket

(* isConnected() *)
isConnected == socket /\ authenticated

(* The socket emits 'error' and 'close' back to back when it is destroyed
   with an error: no timer, no I/O callback and no caller code runs between
   the two handlers. *)
Idle == sock # "errored"

(* number of inputs taken so far *)
Events == Cardinality(DOMAIN reqs) + notReady + pkts

EngineInit ==
  /\ socket = FALSE
  /\ sock = "none"
  /\ authenticated = FALSE
  /\ requestId = 0
  /\ pendingRequests = EmptyMap
  /\ timers = {}
  /\ written = <<>>
  /\ emitted = [error |-> 0, close |-> 0]
  /\ connectCalls = <<>>
  /\ authCalls = <<>>
  /\ sendCalls = EmptyMap
  /\ reqs = EmptyMap
  /\ notReady = 0
  /\ pkts = 0
  /\ expect = EmptyMap
  /\ phase = EmptyMap

(* no byte has been received *)
StreamIdle ==
  /\ stream = <<>>
  /\ delivered = 0
  /\ responseBuffer = <<>>
  /\ dispatched = <<>>
  /\ parseErrors = 0
  /\ hung = FALSE

(* no packet has been built *)
NoArgs == [id |-> 0, type |-> 0, body |-> <<>>]

PacketIdle ==
  /\ args = NoArgs
  /\ wire = <<>>
  /\ parsed = <<>>

CodecInit == StreamIdle /\ PacketIdle

(* a controller that has not connected *)
ControllerIdle ==
  /\ client = 0
  /\ sessions = <<>>
  /\ unwinding = FALSE
  /\ lastSend = "none"

(* the terminal as constructed, on a controller that is connected *)
TerminalIdle ==
  /\ terminalConnected = TRUE
  /\ isReconnecting = FALSE
  /\ reconnectAttempts = 0
  /\ reconnectDelay = 2000
  /\ reconnectTimeout = 0
  /\ link = "up"
  /\ attempt = "none"
  /\ isExecutingCommand = FALSE
  /\ failures = 0
  /\ scheduled = <<>>
  /\ server = "up"
  /\ userOff = FALSE

HostIdle == ControllerIdle /\ TerminalIdle

Init == EngineInit /\ CodecInit /\ HostIdle

Commit(S) ==
  \E T \in {S} :
    /\ pendingRequests' = T.pending
    /\ timers' = T.timers
    /\ authenticated' = T.authenticated
    /\ authCalls' = T.authCalls
    /\ connectCalls' = T.connectCalls
    /\ sendCalls' = T.sendCalls

Delete(S, id) == [S EXCEPT !.pending = Remove(@, {id})]

(* ---- promise callbacks ---- *)

(* `await this.authenticate(); resolve()` / `catch (error) { reject(error) }`:
   the continuation runs once, when the authenticate() promise settles *)
SettleAuth(S, call) ==
  [S EXCEPT !.authCalls = Append(@, call),
            !.connectCalls = IF S.authCalls = <<>> THEN Append(@, call) ELSE @]

(* resolve / reject of the auth entry *)
AuthResolve(S, id) ==
  SettleAuth([S EXCEPT !.timers = @ \ {id}, !.authenticated = TRUE],
             Resolve(EmptyStr))

AuthReject(S, id, err) ==
  SettleAuth([S EXCEPT !.timers = @ \ {id}], Reject(err))

(* variant: the timer is not cleared on resolve *)
MainResolveKeepsTimer(S, id, value) ==
  LET e == S.pending[id] IN
  [S EXCEPT !.pending = Remove(@, {e.main, e.dummy}),
            !.sendCalls[e.main] = Append(@, Resolve(value))]

(* resolve / reject of the main entry of a send() *)
MainResolve(S, id, value) ==
  LET e == S.pending[id] IN
  [S EXCEPT !.timers = @ \ {e.main},
            !.pending = Remove(@, {e.main, e.dummy}),
            !.sendCalls[e.main] = Append(@, Resolve(value))]

MainReject(S, id, err) ==
  LET e == S.pending[id] IN
  [S EXCEPT !.timers = @ \ {e.main},
            !.pending = Remove(@, {e.main, e.dummy}),
            !.sendCalls[e.main] = Append(@, Reject(err))]

(* resolve of the dummy entry of a send() *)
DummyResolve(S, id) ==
  LET m == S.pending[id].main IN
  IF m \in DOMAIN S.pending
    THEN MainResolve(S, m, Join(S.pending[m].fragments))
    ELSE S

(* request.resolve(value) / request.reject(err) of a pending entry *)
ResolveEntry(S, id, value) ==
  CASE S.pending[id].kind = "auth" -> AuthResolve(S, id)
    [] S.pending[id].kind = "main" -> MainResolve(S, id, value)
    [] S.pending[id].kind = "dummy" -> DummyResolve(S, id)

RejectEntry(S, id, err) ==
  CASE S.pending[id].kind = "auth" -> AuthReject(S, id, err)
    [] S.pending[id].kind = "main" -> MainReject(S, id, err)
    [] S.pending[id].kind = "dummy" -> S

(* clearTimeout(request.timeout); request.reject(err): one visit of the loop *)
RejectVisit(S, id, err) ==
  IF id \in DOMAIN S.pending
    THEN RejectEntry(IF S.pending[id].timeout
                       THEN [S EXCEPT !.timers = @ \ {id}] ELSE S,
                     id, err)
    ELSE S

(* `for (const [id, request] of this.pendingRequests)` visits the live map in
   insertion order, which is ascending id order: ids come from ++requestId
   and a deleted id is never inserted again.  An entry deleted by an earlier
   callback is not visited.  (T and rest range over singletons so that the
   state after a visit is computed once.) *)
RECURSIVE RejectFrom(_, _, _)
RejectFrom(S, ids, err) ==
  IF ids = {} THEN S
  ELSE CHOOSE R \in {RejectFrom(T, rest, err) :
                       T \in {RejectVisit(S, Min(ids), err)},
                       rest \in {ids \ {Min(ids)}}} : TRUE

(* variant: the map is cleared without rejecting the entries *)
RejectAllOnlyClears(S, err) == [S EXCEPT !.pending = EmptyMap]

(* the loop of the close handler and of disconnect(), then clear() *)
RejectAll(S, err) ==
  [RejectFrom(S, DOMAIN S.pending, err) EXCEPT !.pending = EmptyMap]

(* ---- handlePacket ---- *)
AuthEntries(S) == {i \in DOMAIN S.pending : S.pending[i].command = AuthCmd}

(* variant: the rejected auth entry is left in the map *)
AuthFailureKeepsEntry(S) ==
  IF AuthEntries(S) # {}
    THEN RejectEntry(S, Min(AuthEntries(S)), "AuthFailed")
    ELSE S

(* packet.id === -1: the first entry whose command is 'auth' is rejected *)
AuthFailure(S) ==
  IF AuthEntries(S) # {}
    THEN LET a == Min(AuthEntries(S)) IN
         Delete(RejectEntry(S, a, "AuthFailed"), a)
    ELSE S

(* variant: a packet whose id has no entry is ignored *)
UnknownIdIgnored(S, p) == S

(* no entry for packet.id: a packet of type 2 resolves the first entry
   whose command is 'auth' *)
UnknownId(S, p) ==
  IF p.type = AUTH_RESPONSE /\ AuthEntries(S) # {}
    THEN LET a == Min(AuthEntries(S)) IN
         Delete(ResolveEntry(S, a, EmptyStr), a)
    ELSE S

(* an entry exists for packet.id *)
Dispatch(S, p) ==
  LET request == S.pending[p.id] IN
  IF p.type = RESPONSE THEN
    LET S1 == [S EXCEPT !.pending[p.id].fragments = Append(@, p.body)] IN
    IF /\ StrLen(p.body) < MAX_PACKET_SIZE - 100
       /\ (request.command = DummyCmd \/ request.command = EmptyStr)
      THEN ResolveEntry(S1, p.id, EmptyStr)
      ELSE S1
  ELSE IF p.type = AUTH_RESPONSE THEN
    IF request.command = AuthCmd THEN ResolveEntry(S, p.id, EmptyStr) ELSE S
  ELSE S

HandlePacket(S, p) ==
  IF p.id = -1 THEN AuthFailure(S)
  ELSE IF p.id \notin DOMAIN S.pending THEN UnknownId(S, p)
  ELSE Dispatch(S, p)

(* ---- wire history of the requests (observation, not program state) ---- *)
KillOpen == [r \in DOMAIN phase |-> IF phase[r] = "open" THEN "dead" ELSE phase[r]]

(* ---- actions ---- *)

(* connect(): new net.Socket(), handlers registered, socket.connect() *)
Connect ==
  /\ sock = "none"
  /\ socket' = TRUE
  /\ sock' = "connecting"
  /\ UNCHANGED <<authenticated, requestId, pendingRequests, timers, written,
                 emitted, connectCalls, authCalls, sendCalls, reqs, notReady,
                 pkts, expect, phase,
                 cvars, hvars>>

(* variant: connect() is resolved on the 'connect' event *)
TcpConnectResolves ==
  /\ sock = "connecting"
  /\ sock' = "open"
  /\ requestId' = requestId + 1
  /\ timers' = timers \cup {requestId + 1}
  /\ pendingRequests' =
       Put(pendingRequests, requestId + 1,
           [command |-> AuthCmd, fragments |-> <<>>, kind |-> "auth",
            main |-> requestId + 1, dummy |-> requestId + 1,
            timeout |-> TRUE])
  /\ written' = Append(written,
       [id |-> requestId + 1, type |-> AUTH, body |-> Password])
  /\ connectCalls' = Append(connectCalls, Resolve(EmptyStr))
  /\ UNCHANGED <<socket, authenticated, emitted, authCalls, sendCalls, reqs,
                 notReady, pkts, expect, phase,
                 cvars, hvars>>

(* 'connect' event: authenticate() *)
TcpConnect ==
  /\ sock = "connecting"
  /\ sock' = "open"
  /\ IF ~socket
       THEN /\ connectCalls' = Append(connectCalls, Reject("NotConnected"))
            /\ UNCHANGED <<requestId, pendingRequests, timers, written>>
       ELSE LET authId == requestId + 1 IN
            /\ requestId' = authId
            /\ timers' = timers \cup {authId}
            /\ pendingRequests' =
                 Put(pendingRequests, authId,
                     [command |-> AuthCmd, fragments |-> <<>>, kind |-> "auth",
                      main |-> authId, dummy |-> authId, timeout |-> TRUE])
            /\ written' = Append(written,
                 [id |-> authId, type |-> AUTH, body |-> Password])
            /\ UNCHANGED connectCalls
  /\ UNCHANGED <<socket, authenticated, emitted, authCalls, sendCalls, reqs,
                 notReady, pkts, expect, phase,
                 cvars, hvars>>

(* variant: the timer rejects and leaves the auth entry in the map *)
AuthTimeoutKeepsEntry ==
  \E id \in timers \ DOMAIN reqs :
    /\ Idle
    /\ Commit(SettleAuth([Cur EXCEPT !.timers = @ \ {id}],
                         Reject("AuthTimeout")))
    /\ UNCHANGED <<socket, sock, requestId, written, emitted, reqs, notReady,
                   pkts, expect, phase,
                 cvars, hvars>>

(* variant: the timer rejects with the error of an authentication failure *)
AuthTimeoutAsFailure ==
  \E id \in timers \ DOMAIN reqs :
    /\ Idle
    /\ Commit(SettleAuth([Cur EXCEPT !.timers = @ \ {id},
                                     !.pending = Remove(@, {id})],
                         Reject("AuthFailed")))
    /\ UNCHANGED <<socket, sock, requestId, written, emitted, reqs, notReady,
                   pkts, expect, phase,
                 cvars, hvars>>

(* variant: the timer also destroys the socket and drops the handle *)
AuthTimeoutDestroys ==
  \E id \in timers \ DOMAIN reqs :
    /\ Idle
    /\ Commit(SettleAuth([Cur EXCEPT !.timers = @ \ {id},
                                     !.pending = Remove(@, {id})],
                         Reject("AuthTimeout")))
    /\ socket' = FALSE
    /\ sock' = "destroyed"
    /\ UNCHANGED <<requestId, written, emitted, reqs, notReady,
                   pkts, expect, phase,
                 cvars, hvars>>

(* the 5000 ms timer of authenticate() fires *)
AuthTimeout ==
  \E id \in timers \ DOMAIN reqs :
    /\ Idle
    /\ Commit(SettleAuth([Cur EXCEPT !.timers = @ \ {id},
                                     !.pending = Remove(@, {id})],
                         Reject("AuthTimeout")))
    /\ UNCHANGED <<socket, sock, requestId, written, emitted, reqs, notReady,
                   pkts, expect, phase,
                 cvars, hvars>>

(* send(command) *)
(* variant: the ready check tests the socket only *)
SendReadySocketOnly == socket

SendReady == socket /\ authenticated

(* variant: the sentinel takes the id of the command *)
SendOneId(command) ==
  IF ~SendReady
    THEN /\ Idle
         /\ Events < MaxEvents
         /\ notReady' = notReady + 1
         /\ UNCHANGED <<socket, sock, authenticated, requestId,
                        pendingRequests, timers, written, emitted,
                        connectCalls, authCalls, sendCalls, reqs, pkts,
                        expect, phase,
                 cvars, hvars>>
    ELSE LET id == requestId + 1
             dummyId == requestId + 1
         IN
         /\ Idle
         /\ Events < MaxEvents
         /\ requestId' = dummyId
         /\ timers' = timers \cup {id}
         /\ pendingRequests' =
              Put(Put(pendingRequests, id,
                      [command |-> command, fragments |-> <<>>,
                       kind |-> "main", main |-> id, dummy |-> dummyId,
                       timeout |-> TRUE]),
                  dummyId,
                  [command |-> DummyCmd, fragments |-> <<>>,
                   kind |-> "dummy", main |-> id, dummy |-> dummyId,
                   timeout |-> FALSE])
         /\ written' = written \o
              << [id |-> id, type |-> COMMAND, body |-> command],
                 [id |-> dummyId, type |-> COMMAND, body |-> EmptyStr] >>
         /\ sendCalls' = Put(sendCalls, id, <<>>)
         /\ reqs' = Put(reqs, id, [command |-> command, dummy |-> dummyId])
         /\ expect' = Put(expect, id, <<>>)
         /\ phase' = Put(phase, id, "open")
         /\ UNCHANGED <<socket, sock, authenticated, emitted, connectCalls,
                        authCalls, notReady, pkts,
                 cvars, hvars>>

(* variant: the sentinel packet is written before the command packet *)
SendSentinelFirst(command) ==
  IF ~SendReady
    THEN /\ Idle
         /\ Events < MaxEvents
         /\ notReady' = notReady + 1
         /\ UNCHANGED <<socket, sock, authenticated, requestId,
                        pendingRequests, timers, written, emitted,
                        connectCalls, authCalls, sendCalls, reqs, pkts,
                        expect, phase,
                 cvars, hvars>>
    ELSE LET id == requestId + 1
             dummyId == requestId + 2
         IN
         /\ Idle
         /\ Events < MaxEvents
         /\ requestId' = dummyId
         /\ timers' = timers \cup {id}
         /\ pendingRequests' =
              Put(Put(pendingRequests, id,
                      [command |-> command, fragments |-> <<>>,
                       kind |-> "main", main |-> id, dummy |-> dummyId,
                       timeout |-> TRUE]),
                  dummyId,
                  [command |-> DummyCmd, fragments |-> <<>>,
                   kind |-> "dummy", main |-> id, dummy |-> dummyId,
                   timeout |-> FALSE])
         /\ written' = written \o
              << [id |-> dummyId, type |-> COMMAND, body |-> EmptyStr],
                 [id |-> id, type |-> COMMAND, body |-> command] >>
         /\ sendCalls' = Put(sendCalls, id, <<>>)
         /\ reqs' = Put(reqs, id, [command |-> command, dummy |-> dummyId])
         /\ expect' = Put(expect, id, <<>>)
         /\ phase' = Put(phase, id, "open")
         /\ UNCHANGED <<socket, sock, authenticated, emitted, connectCalls,
                        authCalls, notReady, pkts,
                 cvars, hvars>>

Send(command) ==
  IF ~SendReady
    THEN /\ Idle
         /\ Events < MaxEvents
         /\ notReady' = notReady + 1
         /\ UNCHANGED <<socket, sock, authenticated, requestId,
                        pendingRequests, timers, written, emitted,
                        connectCalls, authCalls, sendCalls, reqs, pkts,
                        expect, phase,
                 cvars, hvars>>
    ELSE LET id == requestId + 1
             dummyId == requestId + 2
         IN
         /\ Idle
         /\ Events < MaxEvents
         /\ requestId' = dummyId
         /\ timers' = timers \cup {id}
         /\ pendingRequests' =
              Put(Put(pendingRequests, id,
                      [command |-> command, fragments |-> <<>>,
                       kind |-> "main", main |-> id, dummy |-> dummyId,
                       timeout |-> TRUE]),
                  dummyId,
                  [command |-> DummyCmd, fragments |-> <<>>,
                   kind |-> "dummy", main |-> id, dummy |-> dummyId,
                   timeout |-> FALSE])
         /\ written' = written \o
              << [id |-> id, type |-> COMMAND, body |-> command],
                 [id |-> dummyId, type |-> COMMAND, body |-> EmptyStr] >>
         /\ sendCalls' = Put(sendCalls, id, <<>>)
         /\ reqs' = Put(reqs, id, [command |-> command, dummy |-> dummyId])
         /\ expect' = Put(expect, id, <<>>)
         /\ phase' = Put(phase, id, "open")
         /\ UNCHANGED <<socket, sock, authenticated, emitted, connectCalls,
                        authCalls, notReady, pkts,
                 cvars, hvars>>

(* variant: the timer clears the whole pending map *)
CommandTimeoutClearsMap(r) ==
  /\ Idle
  /\ r \in timers \cap DOMAIN reqs
  /\ timers' = timers \ {r}
  /\ pendingRequests' = EmptyMap
  /\ sendCalls' = [sendCalls EXCEPT ![r] = Append(@, Reject("CommandTimeout"))]
  /\ phase' = [phase EXCEPT ![r] = IF @ = "open" THEN "dead" ELSE @]
  /\ UNCHANGED <<socket, sock, authenticated, requestId, written, emitted,
                 connectCalls, authCalls, reqs, notReady, pkts, expect,
                 cvars, hvars>>

(* variant: the timer purges the entries and does not reject *)
CommandTimeoutNoReject(r) ==
  /\ Idle
  /\ r \in timers \cap DOMAIN reqs
  /\ timers' = timers \ {r}
  /\ pendingRequests' = Remove(pendingRequests, {r, reqs[r].dummy})
  /\ phase' = [phase EXCEPT ![r] = IF @ = "open" THEN "dead" ELSE @]
  /\ UNCHANGED <<socket, sock, authenticated, requestId, written, emitted,
                 connectCalls, authCalls, sendCalls, reqs, notReady, pkts,
                 expect,
                 cvars, hvars>>

(* variant: the timer removes the main entry and leaves the sentinel entry *)
CommandTimeoutKeepsSentinel(r) ==
  /\ Idle
  /\ r \in timers \cap DOMAIN reqs
  /\ timers' = timers \ {r}
  /\ pendingRequests' = Remove(pendingRequests, {r})
  /\ sendCalls' = [sendCalls EXCEPT ![r] = Append(@, Reject("CommandTimeout"))]
  /\ phase' = [phase EXCEPT ![r] = IF @ = "open" THEN "dead" ELSE @]
  /\ UNCHANGED <<socket, sock, authenticated, requestId, written, emitted,
                 connectCalls, authCalls, reqs, notReady, pkts, expect,
                 cvars, hvars>>

(* the RESPONSE_TIMEOUT timer of a send() fires *)
CommandTimeout(r) ==
  /\ Idle
  /\ r \in timers \cap DOMAIN reqs
  /\ timers' = timers \ {r}
  /\ pendingRequests' = Remove(pendingRequests, {r, reqs[r].dummy})
  /\ sendCalls' = [sendCalls EXCEPT ![r] = Append(@, Reject("CommandTimeout"))]
  /\ phase' = [phase EXCEPT ![r] = IF @ = "open" THEN "dead" ELSE @]
  /\ UNCHANGED <<socket, sock, authenticated, requestId, written, emitted,
                 connectCalls, authCalls, reqs, notReady, pkts, expect,
                 cvars, hvars>>

(* 'data' event carrying one packet: handleData -> handlePacket.
   Inputs: the id is -1, an id never allocated (0) or any allocated id; the
   body of a RESPONSE to a main id is empty, a 3996-character block or the
   echo of the command; for any other id only the length of the
   body is read, so an empty and a 3996-character body cover it; the body of
   a packet of type 2 is never read. *)
Bodies(id) ==
  IF id \in DOMAIN reqs
    THEN {EmptyStr, <<"blk3996">>, reqs[id].command}
    ELSE {EmptyStr, <<"blk3996">>}

Packets ==
  LET ids == {-1, 0} \cup (1 .. requestId) IN
  UNION {{[id |-> i, type |-> RESPONSE, body |-> b] : b \in Bodies(i)} :
            i \in ids}
    \cup {[id |-> i, type |-> AUTH_RESPONSE, body |-> EmptyStr] : i \in ids}

Data(p) ==
  LET S == HandlePacket(Cur, p)
      e == [r \in DOMAIN expect |->
             IF p.type = RESPONSE /\ p.id = r /\ phase[r] = "open"
               THEN Append(expect[r], p.body) ELSE expect[r]]
      f == [r \in DOMAIN phase |->
             IF p.type = RESPONSE /\ p.id = reqs[r].dummy /\ phase[r] = "open"
               THEN "sentinel" ELSE phase[r]]
  IN
  /\ sock = "open"
  /\ Events < MaxEvents
  /\ pkts' = IF S = Cur /\ e = expect /\ f = phase THEN pkts ELSE pkts + 1
  /\ Commit(S)
  /\ expect' = e
  /\ phase' = f
  /\ UNCHANGED <<socket, sock, requestId, written, emitted, reqs, notReady,
                 cvars, hvars>>

(* variant: the error handler emits 'error' and does not reject connect() *)
SocketErrorNoReject ==
  /\ sock \in {"connecting", "open"}
  /\ sock' = "errored"
  /\ emitted' = [emitted EXCEPT !.error = @ + 1]
  /\ UNCHANGED <<socket, authenticated, requestId, pendingRequests, timers,
                 written, connectCalls, authCalls, sendCalls, reqs, notReady,
                 pkts, expect, phase,
                 cvars, hvars>>

(* 'error' event of the socket; the socket is destroyed and 'close' follows *)
SocketError ==
  /\ sock \in {"connecting", "open"}
  /\ sock' = "errored"
  /\ emitted' = [emitted EXCEPT !.error = @ + 1]
  /\ connectCalls' = Append(connectCalls, Reject("SocketError"))
  /\ UNCHANGED <<socket, authenticated, requestId, pendingRequests, timers,
                 written, authCalls, sendCalls, reqs, notReady, pkts, expect,
                 phase,
                 cvars, hvars>>

(* 'close' event of the socket *)
Close ==
  /\ sock \in {"open", "errored", "destroyed"}
  /\ sock' = "closed"
  /\ emitted' = [emitted EXCEPT !.close = @ + 1]
  /\ Commit(RejectAll([Cur EXCEPT !.authenticated = FALSE],
                      "ConnectionClosed"))
  /\ phase' = KillOpen
  /\ UNCHANGED <<socket, requestId, written, reqs, notReady, pkts, expect,
                 cvars, hvars>>

(* variant: disconnect() emits 'close' itself *)
DisconnectEmitsClose ==
  IF socket
    THEN /\ Idle
         /\ Commit(RejectAll([Cur EXCEPT !.authenticated = FALSE],
                             "Disconnected"))
         /\ sock' = IF sock \in {"connecting", "open"} THEN "destroyed" ELSE sock
         /\ socket' = FALSE
         /\ emitted' = [emitted EXCEPT !.close = @ + 1]
         /\ phase' = KillOpen
         /\ UNCHANGED <<requestId, written, reqs, notReady, pkts, expect,
                 cvars, hvars>>
    ELSE UNCHANGED vars

(* variant: disconnect() does not drop the socket handle *)
DisconnectKeepsSocket ==
  IF socket
    THEN /\ Idle
         /\ Commit(RejectAll([Cur EXCEPT !.authenticated = FALSE],
                             "Disconnected"))
         /\ sock' = IF sock \in {"connecting", "open"} THEN "destroyed" ELSE sock
         /\ phase' = KillOpen
         /\ UNCHANGED <<socket, requestId, written, emitted, reqs, notReady,
                        pkts, expect,
                 cvars, hvars>>
    ELSE UNCHANGED vars

(* variant: disconnect() leaves the authenticated flag as it is *)
DisconnectKeepsAuthenticated ==
  IF socket
    THEN /\ Idle
         /\ Commit(RejectAll(Cur, "Disconnected"))
         /\ sock' = IF sock \in {"connecting", "open"} THEN "destroyed" ELSE sock
         /\ socket' = FALSE
         /\ phase' = KillOpen
         /\ UNCHANGED <<requestId, written, emitted, reqs, notReady, pkts,
                        expect,
                 cvars, hvars>>
    ELSE UNCHANGED vars

(* disconnect() *)
Disconnect ==
  IF socket
    THEN /\ Idle
         /\ Commit(RejectAll([Cur EXCEPT !.authenticated = FALSE],
                             "Disconnected"))
         /\ sock' = IF sock \in {"connecting", "open"} THEN "destroyed" ELSE sock
         /\ socket' = FALSE
         /\ phase' = KillOpen
         /\ UNCHANGED <<requestId, written, emitted, reqs, notReady, pkts,
                        expect,
                 cvars, hvars>>
    ELSE UNCHANGED vars

Next ==
  \/ Connect
  \/ TcpConnect
  \/ AuthTimeout
  \/ \E c \in Commands : Send(c)
  \/ \E r \in DOMAIN reqs : CommandTimeout(r)
  \/ \E p \in Packets : Data(p)
  \/ SocketError
  \/ Close
  \/ Disconnect

Spec == Init /\ [][Next]_vars

TypeOK ==
  /\ socket \in BOOLEAN
  /\ authenticated \in BOOLEAN
  /\ sock \in {"none", "connecting", "open", "errored", "destroyed", "closed"}
  /\ requestId \in 0 .. (1 + 2 * MaxEvents)
  /\ timers \subseteq 1 .. requestId
  /\ DOMAIN pendingRequests \subseteq 1 .. requestId

(* ---- observations used by the properties ---- *)
Mains == DOMAIN reqs
Settled(r) == sendCalls[r] # <<>>
Outcome(r) == Head(sendCalls[r])
PendingMains == {r \in Mains : r \in DOMAIN pendingRequests}
SettlesNow(r) == sendCalls[r] = <<>> /\ sendCalls'[r] # <<>>

(* C1: when the RESPONSE to the sentinel of a send() has arrived, with no
   timeout, close or disconnect before it, the send() is resolved with the
   concatenation, in arrival order, of the RESPONSE bodies that carried its
   mainId *)
C1_SentinelCompletes ==
  \A r \in Mains :
    phase[r] = "sentinel" =>
      Settled(r) /\ Outcome(r) = Resolve(Join(expect[r]))

(* C2: a single send(c) answered by one RESPONSE with body c for the main
   id and then by a RESPONSE for the sentinel id resolves to c, for every
   command text c *)
C2_EchoRoundTrip ==
  \A r \in Mains :
    (/\ Cardinality(Mains) = 1
     /\ pkts = 3
     /\ phase[r] = "sentinel"
     /\ expect[r] = <<reqs[r].command>>)
      => Settled(r) /\ Outcome(r) = Resolve(reqs[r].command)

(* C3: with two send() calls outstanding, a call that resolves returns the
   concatenation, in arrival order, of the RESPONSE bodies that carried its
   own mainId *)
C3_IdIsolation ==
  [][\A r \in Mains :
       (/\ Cardinality(PendingMains) >= 2
        /\ SettlesNow(r)
        /\ sendCalls'[r][1].kind = "resolve")
         => sendCalls'[r][1].value = Join(expect'[r])]_vars

(* C4: resolve or reject is called at most once for a send(), and once it
   has been called the timer of the request is disarmed and its main and
   sentinel entries are gone *)
C4_OneOutcome ==
  \A r \in Mains :
    /\ Len(sendCalls[r]) <= 1
    /\ Settled(r) =>
         /\ r \notin timers
         /\ r \notin DOMAIN pendingRequests
         /\ reqs[r].dummy \notin DOMAIN pendingRequests

(* a send() resolved by its sentinel, with the socket closed afterwards *)
C4_Witness ==
  \E r \in Mains :
    /\ phase[r] = "sentinel"
    /\ sendCalls[r] = <<Resolve(Join(expect[r]))>>
    /\ expect[r] # <<>>
    /\ sock = "closed"

(* ---- fairness: an armed timer fires unless it is cleared, and a destroyed
   socket emits 'close' ---- *)
(* the auth request takes id 1, so the k-th send() takes ids 2k and 2k + 1;
   a send() is accepted only after a packet has resolved the auth request *)
MainIds == {2 * k : k \in 1 .. MaxEvents - 1}

(* the 'close' event of a socket that was destroyed, by an error or by
   disconnect(), is emitted *)
CloseDestroyed == sock \in {"errored", "destroyed"} /\ Close

FairSpec ==
  /\ Spec
  /\ WF_vars(AuthTimeout)
  /\ WF_vars(CloseDestroyed)
  /\ \A r \in MainIds : WF_vars(CommandTimeout(r))

(* C5: every send() that passed the ready check is eventually resolved or
   rejected *)
C5_EventuallySettled ==
  \A r \in MainIds :
    (r \in Mains) ~> (r \in Mains /\ Settled(r))

(* a send() settled by its timer alone: nothing was received for it *)
C5_Witness ==
  \E r \in Mains :
    /\ sendCalls[r] = <<Reject("CommandTimeout")>>
    /\ expect[r] = <<>>
    /\ sock = "open"

TimedOut(r) == Settled(r) /\ Outcome(r) = Reject("CommandTimeout")
LateId(i) == \E r \in Mains : TimedOut(r) /\ i \in {r, reqs[r].dummy}
SendEntries ==
  [i \in {j \in DOMAIN pendingRequests : pendingRequests[j].kind # "auth"} |->
     pendingRequests[i]]

(* C6: the timeout of a send() rejects it with a timeout error and removes
   its main and sentinel entries; a packet that carries either id afterwards
   resolves nothing, rejects nothing and changes no pending request *)
C6_TimeoutPurges ==
  [][/\ \A r \in Mains :
          CommandTimeout(r) =>
            /\ sendCalls'[r] = <<Reject("CommandTimeout")>>
            /\ r \notin DOMAIN pendingRequests'
            /\ reqs[r].dummy \notin DOMAIN pendingRequests'
     /\ \A p \in Packets :
          (Data(p) /\ LateId(p.id)) =>
            /\ sendCalls' = sendCalls
            /\ connectCalls' = connectCalls
            /\ SendEntries' = SendEntries]_vars

AuthPending ==
  /\ authCalls = <<>>
  /\ \E i \in DOMAIN pendingRequests : pendingRequests[i].kind = "auth"

(* C7: the close handler rejects every pending send() and a pending auth
   with 'Connection closed', disarms all timers, empties the pending map
   and clears authenticated *)
C7_CloseRejectsAll ==
  [][emitted'.close # emitted.close =>
       /\ \A r \in PendingMains :
            sendCalls'[r] = <<Reject("ConnectionClosed")>>
       /\ AuthPending => authCalls' = <<Reject("ConnectionClosed")>>
       /\ timers' = {}
       /\ DOMAIN pendingRequests' = {}
       /\ ~authenticated']_vars

(* the socket closed while a send() had received a fragment *)
C7_Witness ==
  \E r \in Mains :
    /\ emitted.close = 1
    /\ expect[r] # <<>>
    /\ sendCalls[r] = <<Reject("ConnectionClosed")>>

(* C8: a send() that fails the ready check changes nothing: no write, no id
   consumed, no pending entry, no timer; and a send() is accepted only with
   a socket and authenticated *)
C8_NotReadyRejected ==
  [][/\ notReady' # notReady =>
          /\ ~(socket /\ authenticated)
          /\ UNCHANGED <<socket, sock, authenticated, requestId,
                         pendingRequests, timers, written, sendCalls, reqs,
                         connectCalls, authCalls, emitted>>
     /\ DOMAIN reqs' # DOMAIN reqs => socket /\ authenticated]_vars

(* a send() rejected while the auth request is pending *)
C8_Witness ==
  /\ notReady > 0
  /\ socket
  /\ ~authenticated
  /\ AuthPending

(* C9: the step that resolves connect() is the step that handles a packet
   resolving the auth request, never the TCP connect step, and after it
   isConnected() is true *)
C9_ResolveAfterAuth ==
  [][(/\ connectCalls = <<>>
      /\ connectCalls' # <<>>
      /\ connectCalls'[1].kind = "resolve")
       => /\ sock = "open"
          /\ AuthPending
          /\ authCalls' = <<Resolve(EmptyStr)>>
          /\ isConnected']_vars

(* connect() resolved *)
C9_Witness ==
  /\ connectCalls = <<Resolve(EmptyStr)>>
  /\ isConnected

AuthWrites == Cardinality({i \in 1 .. Len(written) : written[i].type = AUTH})
AuthFailed == authCalls # <<>> /\ Head(authCalls) = Reject("AuthFailed")

(* C10: a packet with id -1 that arrives while the auth request is pending
   rejects connect() with an authentication error and removes the auth
   entry; from then on the session is not authenticated, isConnected() is
   false and only one AUTH packet has been written *)
C10_AuthFailure ==
  /\ [][\A p \in Packets :
          (Data(p) /\ p.id = -1 /\ AuthPending) =>
            /\ connectCalls' = <<Reject("AuthFailed")>>
            /\ authCalls' = <<Reject("AuthFailed")>>
            /\ AuthEntries(Cur)' = {}]_vars
  /\ [](AuthFailed =>
          /\ ~authenticated
          /\ ~isConnected
          /\ AuthWrites = 1)

(* an id -1 packet was received during auth, after a RESPONSE packet that
   carried the auth id *)
C10_Witness ==
  /\ AuthFailed
  /\ connectCalls = <<Reject("AuthFailed")>>
  /\ AuthEntries(Cur) = {}
  /\ sock = "open"
  /\ pkts = 2

AuthTimedOut == authCalls # <<>> /\ Head(authCalls) = Reject("AuthTimeout")

(* C11: when the auth deadline passes with the auth request still pending,
   connect() is rejected with the timeout error and the auth entry is
   removed; afterwards no packet marks the session authenticated *)
C11_AuthDeadline ==
  /\ [][AuthTimeout =>
          /\ AuthPending
          /\ connectCalls' = <<Reject("AuthTimeout")>>
          /\ authCalls' = <<Reject("AuthTimeout")>>
          /\ AuthEntries(Cur)' = {}
          /\ ~authenticated']_vars
  /\ [](AuthTimedOut => ~authenticated /\ AuthEntries(Cur) = {})

(* the auth deadline passed on an open socket, where an auth response can
   still arrive *)
C11_Witness ==
  /\ AuthTimedOut
  /\ connectCalls = <<Reject("AuthTimeout")>>
  /\ sock = "open"
  /\ Events < MaxEvents

(* a TCP connection attempt ends: the socket emits 'connect' or 'error' *)
TcpOutcome == sock = "connecting" /\ (TcpConnect \/ SocketError)

ConnectFairSpec == FairSpec /\ WF_vars(TcpOutcome)

(* C12: every connect() call is eventually resolved or rejected *)
C12_ConnectSettles == (sock # "none") ~> (connectCalls # <<>>)

(* C13: disconnect() on a session that holds a socket rejects every pending
   send() and a pending auth with 'Disconnected' in that step, disarms all
   timers, empties the pending map, releases the socket and clears
   authenticated; isConnected() is then false and no send() is accepted on
   the session afterwards *)
C13_DisconnectRejectsAll ==
  /\ [][(Disconnect /\ socket) =>
          /\ \A r \in PendingMains :
               sendCalls'[r] = <<Reject("Disconnected")>>
          /\ AuthPending =>
               /\ authCalls' = <<Reject("Disconnected")>>
               /\ connectCalls' = <<Reject("Disconnected")>>
          /\ timers' = {}
          /\ DOMAIN pendingRequests' = {}
          /\ ~socket'
          /\ sock' \notin {"connecting", "open"}
          /\ ~authenticated'
          /\ ~isConnected']_vars
  /\ [][(sock # "none" /\ ~socket) =>
          /\ ~socket'
          /\ ~SendReady'
          /\ DOMAIN reqs' = DOMAIN reqs]_vars

(* disconnect() was called with a send() pending that had received a
   fragment, and a later send() was refused *)
C13_Witness ==
  \E r \in Mains :
    /\ sendCalls[r] = <<Reject("Disconnected")>>
    /\ expect[r] # <<>>
    /\ ~socket
    /\ notReady > 0

(* C14: disconnect() has no failing path; a call leaves the session without
   a socket handle, and a call on a session without a socket handle (never
   connected, or already disconnected) changes no state, rejects nothing and
   emits nothing; on a session whose socket has closed it rejects nothing and
   emits nothing *)
C14_DisconnectIdempotent ==
  [][Disconnect =>
       /\ ~socket'
       /\ emitted' = emitted
       /\ ~socket => UNCHANGED vars
       /\ sock \in {"none", "closed"} =>
            UNCHANGED <<sock, authenticated, requestId, pendingRequests,
                        timers, written, connectCalls, authCalls, sendCalls>>
    ]_vars

(* disconnect() was called on a session whose socket had already closed
   after a socket error; a further call finds no socket handle *)
C14_Witness ==
  /\ ~socket
  /\ sock = "closed"
  /\ emitted = [error |-> 1, close |-> 1]
  /\ connectCalls # <<>>
  /\ Head(connectCalls) = Resolve(EmptyStr)

(* C15: 'close' is emitted at most once for a connection, it has been
   emitted exactly once when the socket is closed, and a connection ended by
   a socket error or by disconnect() does get its 'close' *)
C15_CloseOnce ==
  /\ [](/\ emitted.close <= 1
        /\ sock = "closed" <=> emitted.close = 1)
  /\ (sock \in {"errored", "destroyed"}) ~> (emitted.close = 1)

(* a connection ended by disconnect() while a send() was pending, with its
   'close' emitted afterwards *)
C15_Witness ==
  /\ emitted = [error |-> 0, close |-> 1]
  /\ ~socket
  /\ \E r \in Mains : sendCalls[r] = <<Reject("Disconnected")>>

(* C16: the timeout of a send() touches that request only: every other
   pending entry is kept with its fragments, every other timer stays armed,
   no other promise is settled, and socket, authenticated and the
   notifications are unchanged *)
C16_TimeoutIsLocal ==
  [][\A r \in Mains :
       CommandTimeout(r) =>
         /\ \A i \in DOMAIN pendingRequests \ {r, reqs[r].dummy} :
              /\ i \in DOMAIN pendingRequests'
              /\ pendingRequests'[i] = pendingRequests[i]
         /\ timers' = timers \ {r}
         /\ \A q \in Mains \ {r} : sendCalls'[q] = sendCalls[q]
         /\ UNCHANGED <<socket, sock, authenticated, connectCalls, authCalls,
                        emitted, requestId, written>>]_vars

(* a send() timed out while another send() that had received a fragment
   was pending, and that other send() is still pending with its timer *)
C16_Witness ==
  \E r, q \in Mains :
    /\ r # q
    /\ sendCalls[r] = <<Reject("CommandTimeout")>>
    /\ sendCalls[q] = <<>>
    /\ q \in DOMAIN pendingRequests
    /\ pendingRequests[q].fragments # <<>>
    /\ q \in timers
    /\ isConnected

(* C17: when the RESPONSE to the sentinel of a pending send() arrives while
   an earlier send() is still pending, the later send() is settled in that
   step *)
C17_NoHeadOfLine ==
  [][\A p \in Packets : \A b \in PendingMains :
       (/\ Data(p)
        /\ p.type = RESPONSE
        /\ p.id = reqs[b].dummy
        /\ \E a \in PendingMains : a < b)
         => sendCalls'[b] # <<>>]_vars

(* C18: a socket error emits 'error' and rejects a connect() still in
   progress with the fault; the next step of the session is the close
   handler, which rejects every request pending at that time; the session
   ends closed, with an empty pending map, authenticated false and every
   send() settled, and stays closed *)
C18_ErrorEndsClosed ==
  /\ [][SocketError =>
          /\ emitted'.error = emitted.error + 1
          /\ connectCalls = <<>> => connectCalls' = <<Reject("SocketError")>>
       ]_vars
  /\ [][sock = "errored" =>
          /\ sock' = "closed"
          /\ \A r \in PendingMains :
               sendCalls'[r] = <<Reject("ConnectionClosed")>>]_vars
  /\ [][sock = "closed" => sock' = "closed"]_vars
  /\ (sock = "errored") ~>
       (/\ sock = "closed"
        /\ DOMAIN pendingRequests = {}
        /\ timers = {}
        /\ ~authenticated
        /\ \A r \in Mains : Settled(r))

(* a socket error during the TCP connection attempt: connect() rejected with
   the fault and the socket closed *)
C18_Witness ==
  /\ connectCalls = <<Reject("SocketError")>>
  /\ emitted = [error |-> 1, close |-> 1]
  /\ sock = "closed"
  /\ requestId = 0

(***************************************************************************)
(* Packet codec: createPacket, parsePacket and handleData.  A buffer is a  *)
(* sequence of bytes (0 .. 255), offsets are 0-based as in the code.  A    *)
(* body is a sequence of Unicode code points (text that has a UTF-8        *)
(* encoding).  The packets handed to handlePacket are recorded in          *)
(* dispatched; what the session does with a packet is the action Data.     *)
(***************************************************************************)

(* ---- bounds ---- *)
MaxBodyChars == 2   \* characters of a body given to createPacket
MaxFrames == 2      \* frames of an inbound stream

Max2(a, b) == IF a >= b THEN a ELSE b
Min2(a, b) == IF a <= b THEN a ELSE b

(* buffer.writeInt32LE(v, off): the four bytes of the two's complement of
   v, least significant first, for v in -2^31 .. 2^31 - 1 *)
Int32LE(v) ==
  LET b0 == v % 256
      v1 == (v - b0) \div 256
      b1 == v1 % 256
      v2 == (v1 - b1) \div 256
      b2 == v2 % 256
      v3 == (v2 - b2) \div 256
  IN <<b0, b1, b2, (v3 % 256)>>

(* buffer.readInt32LE(off) *)
readInt32LE(buffer, off) ==
  LET hi == buffer[off + 4] IN
  buffer[off + 1] + 256 * buffer[off + 2] + 65536 * buffer[off + 3]
    + 16777216 * (IF hi >= 128 THEN hi - 256 ELSE hi)

(* buffer.slice(start, end): a negative index counts from the end, and both
   indices are clamped to 0 .. length *)
SliceIndex(i, len) == IF i < 0 THEN Max2(len + i, 0) ELSE Min2(i, len)

slice(buffer, start, end) ==
  LET a == SliceIndex(start, Len(buffer))
      z == SliceIndex(end, Len(buffer))
  IN IF z > a THEN SubSeq(buffer, a + 1, z) ELSE <<>>

(* ---- UTF-8 ---- *)
REPLACEMENT == 65533

(* the UTF-8 bytes of one code point *)
Utf8Char(c) ==
  IF c < 128 THEN <<c>>
  ELSE IF c < 2048 THEN <<192 + (c \div 64), 128 + (c % 64)>>
  ELSE IF c < 65536
    THEN <<224 + (c \div 4096), 128 + ((c \div 64) % 64), 128 + (c % 64)>>
  ELSE <<240 + (c \div 262144), 128 + ((c \div 4096) % 64),
         128 + ((c \div 64) % 64), 128 + (c % 64)>>

(* the bytes buffer.write(body, ..., 'utf8') stores; their number is
   Buffer.byteLength(body, 'utf8') *)
RECURSIVE Utf8Encode(_)
Utf8Encode(body) ==
  IF body = <<>> THEN <<>> ELSE Utf8Char(Head(body)) \o Utf8Encode(Tail(body))

Drop(s, n) == SubSeq(s, n + 1, Len(s))
IsCont(b) == b >= 128 /\ b <= 191

(* buffer.toString('utf8'): a byte sequence that is not the encoding of a
   code point is replaced, per maximal well-formed prefix, by U+FFFD *)
RECURSIVE Utf8Decode(_)
Utf8Decode(bs) ==
  IF bs = <<>> THEN <<>>
  ELSE
    LET b == bs[1]
        n == Len(bs)
        lo == IF b = 224 THEN 160 ELSE IF b = 240 THEN 144 ELSE 128
        hi == IF b = 237 THEN 159 ELSE IF b = 244 THEN 143 ELSE 191
        ok2 == n >= 2 /\ bs[2] >= lo /\ bs[2] <= hi
        ok3 == ok2 /\ n >= 3 /\ IsCont(bs[3])
        ok4 == ok3 /\ n >= 4 /\ IsCont(bs[4])
    IN
    IF b < 128 THEN <<b>> \o Utf8Decode(Drop(bs, 1))
    ELSE IF b >= 194 /\ b <= 223 THEN
      IF ok2 THEN <<(b - 192) * 64 + (bs[2] - 128)>> \o Utf8Decode(Drop(bs, 2))
      ELSE <<REPLACEMENT>> \o Utf8Decode(Drop(bs, 1))
    ELSE IF b >= 224 /\ b <= 239 THEN
      IF ok3
        THEN <<(b - 224) * 4096 + (bs[2] - 128) * 64 + (bs[3] - 128)>>
               \o Utf8Decode(Drop(bs, 3))
      ELSE <<REPLACEMENT>> \o Utf8Decode(Drop(bs, IF ok2 THEN 2 ELSE 1))
    ELSE IF b >= 240 /\ b <= 244 THEN
      IF ok4
        THEN <<(b - 240) * 262144 + (bs[2] - 128) * 4096
                 + (bs[3] - 128) * 64 + (bs[4] - 128)>>
               \o Utf8Decode(Drop(bs, 4))
      ELSE <<REPLACEMENT>>
             \o Utf8Decode(Drop(bs, IF ok3 THEN 3 ELSE IF ok2 THEN 2 ELSE 1))
    ELSE <<REPLACEMENT>> \o Utf8Decode(Drop(bs, 1))

(* buffer.toString('utf8', start, end) *)
toString(buffer, start, end) ==
  LET len == Len(buffer)
      s == IF start <= 0 THEN 0 ELSE start
      e == IF end > len THEN len ELSE end
  IN IF s >= len \/ e <= s THEN <<>> ELSE Utf8Decode(SubSeq(buffer, s + 1, e))

(* ---- createPacket / parsePacket ---- *)
(* Buffer.alloc(n): n zero bytes *)
Alloc(n) == [i \in 1 .. n |-> 0]

(* the bytes stored from offset off on *)
WriteAt(buffer, bytes, off) ==
  [i \in 1 .. Len(buffer) |->
     IF i > off /\ i <= off + Len(bytes) THEN bytes[i - off] ELSE buffer[i]]

(* variant: the size is computed from the number of characters of the body *)
createPacketCharCount(id, type, body) ==
  LET size == 4 + 4 + Len(body) + 2
      b0 == Alloc(4 + size)
      b1 == WriteAt(b0, Int32LE(size), 0)
      b2 == WriteAt(b1, Int32LE(id), 4)
      b3 == WriteAt(b2, Int32LE(type), 8)
  IN WriteAt(b3, SubSeq(Utf8Encode(body), 1, Min2(Len(body), Len(Utf8Encode(body)))), 12)

createPacket(id, type, body) ==
  LET bodyLength == Len(Utf8Encode(body))
      size == 4 + 4 + bodyLength + 2
      b0 == Alloc(4 + size)
      b1 == WriteAt(b0, Int32LE(size), 0)
      b2 == WriteAt(b1, Int32LE(id), 4)
      b3 == WriteAt(b2, Int32LE(type), 8)
  IN WriteAt(b3, SubSeq(Utf8Encode(body), 1, bodyLength), 12)

(* parsePacket: throws 'Packet too small' below 14 bytes *)
parsePacket(buffer) ==
  IF Len(buffer) < 14
    THEN [ok |-> FALSE]
    ELSE LET size == readInt32LE(buffer, 0)
             bodyEnd == Min2(12 + size - 10, Len(buffer) - 2)
         IN [ok |-> TRUE,
             size |-> size,
             id |-> readInt32LE(buffer, 4),
             type |-> readInt32LE(buffer, 8),
             body |-> toString(buffer, 12, bodyEnd)]

(* ---- createPacket followed by parsePacket ---- *)
(* inputs: ids and types at the ends and in the middle of the 32-bit range,
   bodies over characters of 1, 2, 3 and 4 UTF-8 bytes and the NUL
   character *)
PacketIds == {-2147483647 - 1, -1, 0, 1, 255, 256, 65536, 2147483647}
PacketTypes == {AUTH, COMMAND, RESPONSE, -1, 2147483647}
Chars == {0, 97, 233, 8364, 128512}
Texts == UNION {[1 .. k -> Chars] : k \in 0 .. MaxBodyChars}

PacketInit ==
  /\ EngineInit
  /\ HostIdle
  /\ StreamIdle
  /\ args \in [id : PacketIds, type : PacketTypes, body : Texts]
  /\ wire = <<>>
  /\ parsed = <<>>

Create ==
  /\ wire = <<>>
  /\ wire' = createPacket(args.id, args.type, args.body)
  /\ UNCHANGED <<evars, hvars, stream, delivered, responseBuffer, dispatched,
                 parseErrors, hung, args, parsed>>

Parse ==
  /\ wire # <<>>
  /\ parsed = <<>>
  /\ parsed' = <<parsePacket(wire)>>
  /\ UNCHANGED <<evars, hvars, stream, delivered, responseBuffer, dispatched,
                 parseErrors, hung, args, wire>>

PacketNext == Create \/ Parse

PacketSpec == PacketInit /\ [][PacketNext]_vars

(* C20: createPacket(id, type, body) returns 4 + size bytes with size = 10 +
   the UTF-8 byte length of body: little-endian size, id, type, the body
   bytes, two zero bytes; parsePacket of that buffer succeeds and returns
   the same id, type and body *)
C20_RoundTrip ==
  /\ wire # <<>> =>
       LET bytes == Utf8Encode(args.body)
           size == 10 + Len(bytes)
       IN /\ Len(wire) = 4 + size
          /\ \A i \in 1 .. Len(wire) : wire[i] \in 0 .. 255
          /\ wire = Int32LE(size) \o Int32LE(args.id) \o Int32LE(args.type)
                      \o bytes \o <<0, 0>>
          /\ readInt32LE(wire, 0) = size
          /\ wire[1] = size % 256
          /\ wire[5] = args.id % 256
          /\ wire[9] = args.type % 256
  /\ parsed # <<>> =>
       /\ parsed[1].ok
       /\ parsed[1].id = args.id
       /\ parsed[1].type = args.type
       /\ parsed[1].body = args.body

(* a packet with id -1 and a body of a 3-byte and a 4-byte character was
   built and parsed *)
C20_Witness ==
  /\ parsed # <<>>
  /\ args.id = -1
  /\ args.body = <<8364, 128512>>
  /\ Len(wire) = 21

(* ---- handleData ---- *)
(* variant: a packet that fails to parse ends the loop and stays buffered *)
RECURSIVE ExtractLoopKeepsBad(_)
ExtractLoopKeepsBad(st) ==
  IF Len(st.buffer) < 4 THEN st
  ELSE
    LET size == readInt32LE(st.buffer, 0) IN
    IF Len(st.buffer) - 4 < size THEN st
    ELSE
      LET packetBuffer == slice(st.buffer, 0, size + 4)
          rest == slice(st.buffer, size + 4, Len(st.buffer))
          packet == parsePacket(packetBuffer)
      IN IF packet.ok
           THEN ExtractLoopKeepsBad(
                  [buffer |-> rest,
                   out |-> Append(st.out, [id |-> packet.id,
                                           type |-> packet.type,
                                           body |-> packet.body]),
                   errors |-> st.errors,
                   hung |-> FALSE])
           ELSE [st EXCEPT !.errors = @ + 1]

(* the while loop of handleData on the state st = [buffer, out, errors,
   hung]: out collects the packets passed to handlePacket, errors counts
   the caught parse errors.  An iteration that leaves the buffer as it found
   it is repeated for ever: hung. *)
RECURSIVE ExtractLoop(_)
ExtractLoop(st) ==
  IF Len(st.buffer) < 4 THEN st
  ELSE
    LET size == readInt32LE(st.buffer, 0) IN
    IF Len(st.buffer) - 4 < size THEN st
    ELSE
      LET packetBuffer == slice(st.buffer, 0, size + 4)
          rest == slice(st.buffer, size + 4, Len(st.buffer))
          packet == parsePacket(packetBuffer)
          next ==
            [buffer |-> rest,
             out |-> IF packet.ok
                       THEN Append(st.out, [id |-> packet.id,
                                            type |-> packet.type,
                                            body |-> packet.body])
                       ELSE st.out,
             errors |-> IF packet.ok THEN st.errors ELSE st.errors + 1,
             hung |-> rest = st.buffer]
      IN IF next.hung THEN next ELSE ExtractLoop(next)

(* handleData(data) with this.responseBuffer = buffer *)
handleData(buffer, data) ==
  ExtractLoop([buffer |-> buffer \o data, out |-> <<>>, errors |-> 0,
               hung |-> FALSE])

(* inputs: streams of up to MaxFrames frames; a frame is a well-formed
   packet with or without body, a complete packet shorter than 14 bytes
   (declared size 0 or 9), or a size header with a negative value *)
GoodPackets ==
  {[id |-> 1, type |-> AUTH_RESPONSE, body |-> <<>>],
   [id |-> 2, type |-> RESPONSE, body |-> <<97, 233>>]}

GoodFrames == {createPacket(p.id, p.type, p.body) : p \in GoodPackets}

ShortFrames == {Int32LE(0), Int32LE(9) \o <<1, 2, 3, 4, 5, 6, 7, 8, 9>>}

NegativeFrames == {Int32LE(-5), Int32LE(-4)}

Frames == GoodFrames \cup ShortFrames \cup NegativeFrames

RECURSIVE Concat(_)
Concat(fs) == IF fs = <<>> THEN <<>> ELSE Head(fs) \o Concat(Tail(fs))

Streams == {Concat(fs) : fs \in UNION {[1 .. k -> Frames] : k \in 1 .. MaxFrames}}

StreamInit ==
  /\ EngineInit
  /\ HostIdle
  /\ PacketIdle
  /\ stream \in Streams
  /\ delivered = 0
  /\ responseBuffer = <<>>
  /\ dispatched = <<>>
  /\ parseErrors = 0
  /\ hung = FALSE

(* 'data' event carrying the next n bytes of the stream *)
Chunk(n) ==
  /\ ~hung
  /\ n \in 1 .. (Len(stream) - delivered)
  /\ LET r == handleData(responseBuffer,
                         SubSeq(stream, delivered + 1, delivered + n))
     IN /\ responseBuffer' = r.buffer
        /\ dispatched' = dispatched \o r.out
        /\ parseErrors' = parseErrors + r.errors
        /\ hung' = r.hung
  /\ delivered' = delivered + n
  /\ UNCHANGED <<evars, hvars, stream, args, wire, parsed>>

StreamNext == \E n \in 1 .. Len(stream) : Chunk(n)

StreamSpec == StreamInit /\ [][StreamNext]_vars

(* the packets dispatched when the whole stream arrives in one 'data' event *)
Contiguous == handleData(<<>>, stream).out

(* C19: once the whole stream has been delivered, the packets dispatched
   are those dispatched when it arrives as one buffer, however it was cut;
   and a 'data' event after which the buffer holds fewer than 4 bytes, or
   fewer than size + 4 bytes, dispatches nothing and keeps all the bytes *)
C19_ChunkingIrrelevant ==
  /\ [](delivered = Len(stream) => dispatched = Contiguous)
  /\ [][\A n \in 1 .. Len(stream) :
          Chunk(n) =>
            LET b == responseBuffer
                       \o SubSeq(stream, delivered + 1, delivered + n)
            IN (Len(b) < 4 \/ Len(b) - 4 < readInt32LE(b, 0)) =>
                 /\ dispatched' = dispatched
                 /\ responseBuffer' = b]_vars

(* the frame sequences of which the stream is the concatenation *)
FrameSeqs == UNION {[1 .. k -> Frames] : k \in 1 .. MaxFrames}
Sent == {fs \in FrameSeqs : Concat(fs) = stream}

(* the packets of the well-formed frames of fs, in order *)
RECURSIVE Wanted(_)
Wanted(fs) ==
  IF fs = <<>> THEN <<>>
  ELSE (IF Head(fs) \in GoodFrames
          THEN <<CHOOSE p \in GoodPackets :
                   Head(fs) = createPacket(p.id, p.type, p.body)>>
          ELSE <<>>) \o Wanted(Tail(fs))

Shorts(fs) == Cardinality({i \in 1 .. Len(fs) : fs[i] \in ShortFrames})

(* C21: in a stream of well-formed packets and complete packets shorter
   than 14 bytes, every short packet is reported and none is dispatched,
   the well-formed packets before and after it are dispatched in order,
   handleData returns, and no step of the decoder touches the session (no
   request rejected, socket not closed) *)
C21_ShortPacketDropped ==
  /\ [](\A fs \in Sent :
          (/\ \A i \in 1 .. Len(fs) : fs[i] \notin NegativeFrames
           /\ delivered = Len(stream))
            => /\ dispatched = Wanted(fs)
               /\ parseErrors = Shorts(fs)
               /\ responseBuffer = <<>>
               /\ ~hung)
  /\ [][parseErrors' # parseErrors => UNCHANGED evars]_vars

(* a 13-byte packet followed by a well-formed packet, delivered in more
   than one 'data' event: one report, one packet dispatched *)
C21_Witness ==
  /\ stream = Int32LE(9) \o <<1, 2, 3, 4, 5, 6, 7, 8, 9>>
                \o createPacket(2, RESPONSE, <<97, 233>>)
  /\ delivered = Len(stream)
  /\ parseErrors = 1
  /\ dispatched = <<[id |-> 2, type |-> RESPONSE, body |-> <<97, 233>>]>>

(* the decoder has been handed the size header of a frame whose declared
   size is negative, as the first frame of the stream *)
DesyncMet ==
  /\ delivered >= 4
  /\ \E fs \in Sent : fs[1] \in NegativeFrames

(* C22: once the decoder has met a size header with a negative declared
   size, handleData returns and an 'error' has been surfaced to the
   session *)
C22_DesyncEscalates ==
  DesyncMet => /\ ~hung
               /\ emitted.error >= 1

(* the outcomes a step appends to a call log *)
Appended(old, new) == {new[i] : i \in (Len(old) + 1) .. Len(new)}

NewOutcomes(oldConnect, newConnect, oldAuth, newAuth, oldSend, newSend) ==
  Appended(oldConnect, newConnect) \cup Appended(oldAuth, newAuth)
    \cup UNION {Appended(IF r \in DOMAIN oldSend THEN oldSend[r] ELSE <<>>,
                         newSend[r]) : r \in DOMAIN newSend}

(* the kind of an error value: 'Authentication failed' (274);
   'Authentication timeout' (135) and 'Command timeout: ...' (181); the
   socket's own error (89), 'Connection closed' (111) and 'Disconnected'
   (391); 'Not connected' (126).  send() on a session that is not ready
   rejects with 'Not connected or authenticated' (167) and reaches no log *)
KindOf(e) ==
  CASE e = "AuthFailed" -> "authentication"
    [] e \in {"AuthTimeout", "CommandTimeout"} -> "timeout"
    [] e \in {"SocketError", "ConnectionClosed", "Disconnected"} -> "connection"
    [] e = "NotConnected" -> "notReady"

(* C23: every rejection a step delivers to connect(), authenticate() or
   send() carries the error of the kind of what happened in that step: a
   packet from the server rejects only as an authentication rejection, a
   socket error, a close or a disconnect only as a connection fault, an
   expired timer only as a timeout (the auth timer as the auth timeout, a
   command timer as the command timeout); in particular an auth timeout is
   never reported as an authentication rejection *)
C23_KindsDistinct ==
  [][\A o \in NewOutcomes(connectCalls, connectCalls', authCalls, authCalls',
                          sendCalls, sendCalls') :
       o.kind = "reject" =>
         /\ KindOf(o.value) =
              (IF pkts' # pkts THEN "authentication"
               ELSE IF emitted' # emitted \/ socket' # socket THEN "connection"
               ELSE IF timers' # timers /\ sock' = sock THEN "timeout"
               ELSE "notReady")
         /\ o.value = "AuthTimeout" => (timers \ timers') \cap DOMAIN reqs = {}
         /\ o.value = "CommandTimeout" => (timers \ timers') \subseteq DOMAIN reqs]_vars

(* one send() has been rejected by its deadline and another by the close of
   the connection, after a connect() that resolved *)
C23_Witness ==
  /\ connectCalls # <<>> /\ Head(connectCalls) = Resolve(EmptyStr)
  /\ \E r1, r2 \in Mains :
       /\ sendCalls[r1] = <<Reject("CommandTimeout")>>
       /\ sendCalls[r2] = <<Reject("ConnectionClosed")>>

(* ---- RconController (rconClient.ts) ---- *)

(* bounds: sessions created by one controller, request ids of one session *)
MaxSessions == 3
MaxRequestId == 3

(* new RconProtocol(...) followed by its connect(): the socket is created
   and connecting, nothing else has happened *)
NewSession ==
  [socket |-> TRUE, sock |-> "connecting", authenticated |-> FALSE,
   requestId |-> 0, pending |-> {}]

(* RconController.isConnected() *)
ControllerIsConnected ==
  /\ client # 0
  /\ sessions[client].socket
  /\ sessions[client].authenticated

(* RconController.connect(), up to its await *)
ControllerConnect ==
  /\ Len(sessions) < MaxSessions
  /\ sessions' = Append(sessions, NewSession)
  /\ client' = Len(sessions) + 1
  /\ UNCHANGED <<unwinding, lastSend, evars, cvars, tvars>>

(* 'connect' event of the socket of session i: authenticate() *)
SessionTcpConnect(i) ==
  /\ ~unwinding
  /\ sessions[i].sock = "connecting"
  /\ sessions' = [sessions EXCEPT ![i].sock = "open",
                                  ![i].requestId = 1,
                                  ![i].pending = {1}]
  /\ UNCHANGED <<client, unwinding, lastSend, evars, cvars, tvars>>

(* the auth response of session i arrives *)
SessionAuthenticated(i) ==
  /\ ~unwinding
  /\ sessions[i].sock = "open"
  /\ ~sessions[i].authenticated
  /\ 1 \in sessions[i].pending
  /\ sessions' = [sessions EXCEPT ![i].authenticated = TRUE]
  /\ UNCHANGED <<client, unwinding, lastSend, evars, cvars, tvars>>

(* 'close' event of the socket of session i: the session clears its state
   and emits 'close'; the handler the controller registered for that
   session runs *)
SessionClose(i) ==
  /\ ~unwinding
  /\ sessions[i].sock \in {"connecting", "open", "destroyed"}
  /\ sessions' = [sessions EXCEPT ![i].sock = "closed",
                                  ![i].authenticated = FALSE,
                                  ![i].pending = {}]
  /\ client' = 0
  /\ UNCHANGED <<unwinding, lastSend, evars, cvars, tvars>>

(* RconController.send(cmd) *)
ControllerSend ==
  /\ IF client = 0
       THEN /\ lastSend' = "NotConnected"
            /\ UNCHANGED sessions
       ELSE LET s == sessions[client] IN
            IF s.socket /\ s.authenticated
              THEN /\ s.requestId + 2 <= MaxRequestId
                   /\ sessions' =
                        [sessions EXCEPT
                           ![client].requestId = s.requestId + 2,
                           ![client].pending =
                              @ \cup {s.requestId + 1, s.requestId + 2}]
                   /\ lastSend' = "written"
              ELSE /\ lastSend' = "NotReady"
                   /\ UNCHANGED sessions
  /\ UNCHANGED <<client, unwinding, evars, cvars, tvars>>

(* RconController.disconnect(), up to its await: disconnect() of the
   session *)
ControllerDisconnect ==
  /\ ~unwinding
  /\ client # 0
  /\ sessions' =
       IF sessions[client].socket
         THEN [sessions EXCEPT ![client].socket = FALSE,
                               ![client].authenticated = FALSE,
                               ![client].pending = {},
                               ![client].sock =
                                  IF @ \in {"connecting", "open"}
                                    THEN "destroyed" ELSE @]
         ELSE sessions
  /\ unwinding' = TRUE
  /\ UNCHANGED <<client, lastSend, evars, cvars, tvars>>

(* RconController.disconnect(), after its await: this.client = null *)
ControllerDisconnected ==
  /\ unwinding
  /\ unwinding' = FALSE
  /\ client' = 0
  /\ UNCHANGED <<sessions, lastSend, evars, cvars, tvars>>

ControllerNext ==
  \/ ControllerConnect
  \/ \E i \in 1 .. Len(sessions) : SessionTcpConnect(i)
  \/ \E i \in 1 .. Len(sessions) : SessionAuthenticated(i)
  \/ \E i \in 1 .. Len(sessions) : SessionClose(i)
  \/ ControllerSend
  \/ ControllerDisconnect
  \/ ControllerDisconnected

ControllerSpec == Init /\ [][ControllerNext]_vars

(* C24: connect() makes a new session with request counter 0, an empty
   pending map and authenticated false, and leaves the earlier sessions as
   they are; the 'close' event of a session that disconnect() has ended,
   arriving after a later connect(), leaves the controller's reference to
   the new session in place *)
C24_FreshSession ==
  /\ [][ControllerConnect =>
          /\ client' = Len(sessions')
          /\ sessions'[client'] = NewSession
          /\ \A i \in 1 .. Len(sessions) : sessions'[i] = sessions[i]]_vars
  /\ [][\A i \in 1 .. Len(sessions) :
          (/\ SessionClose(i)
           /\ sessions[i].sock = "destroyed"
           /\ client # 0
           /\ i # client) => client' = client]_vars

(* ---- RconTerminal (rconTerminal.ts): connection state and reconnection ---- *)

maxReconnectAttempts == 5
InitialDelay == 2000
MaxDelay == 32000
LossDelay == 1000

(* the fields of the terminal that the reconnect logic writes *)
Term ==
  [connected |-> terminalConnected, reconnecting |-> isReconnecting,
   attempts |-> reconnectAttempts, delay |-> reconnectDelay,
   timeout |-> reconnectTimeout]

SetTerm(T) ==
  /\ terminalConnected' = T.connected
  /\ isReconnecting' = T.reconnecting
  /\ reconnectAttempts' = T.attempts
  /\ reconnectDelay' = T.delay
  /\ reconnectTimeout' = T.timeout

(* catch branch of executeCommand for an error that names the connection:
   mark the connection lost and arm the first attempt *)
LossDetected(T) ==
  [T EXCEPT !.connected = FALSE, !.attempts = 0, !.delay = InitialDelay,
            !.timeout = LossDelay]

(* variant: a failed attempt is always retried *)
RetryWithoutLimit(T) ==
  [T EXCEPT !.reconnecting = FALSE,
            !.timeout = T.delay,
            !.delay = Min2(T.delay * 2, MaxDelay)]

(* variant: the delay is not doubled *)
RetryFixedDelay(T) ==
  IF T.attempts < maxReconnectAttempts
    THEN [T EXCEPT !.reconnecting = FALSE,
                   !.timeout = T.delay]
    ELSE [T EXCEPT !.reconnecting = FALSE,
                   !.attempts = 0,
                   !.delay = InitialDelay,
                   !.timeout = 0]

(* catch branch of attemptReconnect *)
Retry(T) ==
  IF T.attempts < maxReconnectAttempts
    THEN [T EXCEPT !.reconnecting = FALSE,
                   !.timeout = T.delay,
                   !.delay = Min2(T.delay * 2, MaxDelay)]
    ELSE [T EXCEPT !.reconnecting = FALSE,
                   !.attempts = 0,
                   !.delay = InitialDelay,
                   !.timeout = 0]

(* the user enters a command: executeCommand up to its await.  With the
   session gone (the controller's client is null) controller.send() throws
   'Not connected' and the catch branch runs *)
ExecuteCommand ==
  /\ ~isExecutingCommand
  /\ ~isReconnecting
  /\ terminalConnected
  /\ IF link = "down"
       THEN /\ SetTerm(LossDetected(Term))
            /\ UNCHANGED isExecutingCommand
       ELSE /\ isExecutingCommand' = TRUE
            /\ UNCHANGED <<terminalConnected, isReconnecting,
                           reconnectAttempts, reconnectDelay,
                           reconnectTimeout>>
  /\ scheduled' = IF link = "down" THEN <<>> ELSE scheduled
  /\ UNCHANGED <<link, attempt, failures, evars, cvars, kvars, server, userOff>>

(* controller.send() resolves *)
CommandResolves ==
  /\ isExecutingCommand
  /\ link = "up"
  /\ isExecutingCommand' = FALSE
  /\ UNCHANGED <<terminalConnected, isReconnecting, reconnectAttempts,
                 reconnectDelay, reconnectTimeout, link, attempt, failures,
                 scheduled, evars, cvars, kvars, server, userOff>>

(* controller.send() rejects with 'Command timeout: ...' *)
CommandFails ==
  /\ isExecutingCommand
  /\ link = "up"
  /\ isExecutingCommand' = FALSE
  /\ SetTerm(LossDetected(Term))
  /\ scheduled' = <<>>
  /\ UNCHANGED <<link, attempt, failures, evars, cvars, kvars, server, userOff>>

(* the 'close' event of the established session: the controller logs and
   drops the session, a command in flight rejects with 'Connection closed' *)
SessionLost ==
  /\ link' = "down"
  /\ isExecutingCommand' = FALSE
  /\ IF isExecutingCommand
       THEN /\ SetTerm(LossDetected(Term))
            /\ scheduled' = <<>>
       ELSE UNCHANGED <<terminalConnected, isReconnecting, reconnectAttempts,
                        reconnectDelay, reconnectTimeout, scheduled>>
  /\ UNCHANGED <<attempt, failures, evars, cvars, kvars, userOff>>

(* the socket of the established session errors or the peer closes it *)
ConnectionLost ==
  /\ link = "up"
  /\ SessionLost
  /\ UNCHANGED server

(* the server stops: its connections are closed *)
ServerStops ==
  /\ server = "up"
  /\ server' = "down"
  /\ IF link = "up"
       THEN SessionLost
       ELSE /\ link' = "down"
            /\ UNCHANGED <<terminalConnected, isReconnecting,
                           reconnectAttempts, reconnectDelay,
                           reconnectTimeout, attempt, isExecutingCommand,
                           failures, scheduled, evars, cvars, kvars,
                           userOff>>

(* the server starts *)
ServerStarts ==
  /\ server = "down"
  /\ server' = "up"
  /\ UNCHANGED <<evars, cvars, kvars, terminalConnected, isReconnecting,
                 reconnectAttempts, reconnectDelay, reconnectTimeout, link,
                 attempt, isExecutingCommand, failures, scheduled, userOff>>

(* attemptReconnect() up to `await this.controller.connect()`, on the
   fields T; a command still in flight is rejected with 'Disconnected' by
   controller.disconnect() *)
AttemptReconnect(T) ==
  IF T.reconnecting \/ T.connected
    THEN /\ SetTerm(T)
         /\ UNCHANGED <<link, attempt, isExecutingCommand>>
    ELSE /\ SetTerm([T EXCEPT !.reconnecting = TRUE, !.attempts = @ + 1])
         /\ link' = "down"
         /\ attempt' = "connecting"
         /\ isExecutingCommand' = FALSE

(* the reconnect timer fires *)
ReconnectTimer ==
  /\ reconnectTimeout # 0
  /\ AttemptReconnect([Term EXCEPT !.timeout = 0])
  /\ UNCHANGED <<failures, scheduled, evars, cvars, kvars, server, userOff>>

(* the user enters /reconnect: manualReconnect() *)
ManualReconnect ==
  /\ ~isExecutingCommand
  /\ ~isReconnecting
  /\ AttemptReconnect([Term EXCEPT !.attempts = 0, !.delay = InitialDelay])
  /\ failures' = 0
  /\ scheduled' = <<>>
  /\ userOff' = FALSE
  /\ UNCHANGED <<evars, cvars, kvars, server>>

(* 'connect' event of the socket of the new session *)
AttemptTcp ==
  /\ server = "up"
  /\ attempt = "connecting"
  /\ attempt' = "authenticating"
  /\ UNCHANGED <<terminalConnected, isReconnecting, reconnectAttempts,
                 reconnectDelay, reconnectTimeout, link, isExecutingCommand,
                 failures, scheduled, evars, cvars, kvars, server, userOff>>

(* controller.connect() resolves *)
ConnectSucceeds ==
  /\ server = "up"
  /\ attempt = "authenticating"
  /\ attempt' = "none"
  /\ link' = "up"
  /\ SetTerm([Term EXCEPT !.connected = TRUE, !.reconnecting = FALSE,
                          !.attempts = 0, !.delay = InitialDelay,
                          !.timeout = 0])
  /\ failures' = 0
  /\ UNCHANGED <<isExecutingCommand, scheduled, evars, cvars, kvars, server, userOff>>

(* the timers armed so far, after the catch branch has turned T into R *)
Armed(R) == IF R.timeout # 0 THEN Append(scheduled, R.timeout) ELSE scheduled

(* controller.connect() rejects: with a socket error or a close the session
   is gone; after an authentication failure or an authentication timeout
   the session stays open *)
ConnectFails ==
  /\ attempt \in {"connecting", "authenticating"}
  /\ attempt' = "none"
  /\ link' \in IF attempt = "connecting" THEN {"down"} ELSE {"down", "half"}
  /\ SetTerm(Retry(Term))
  /\ scheduled' = Armed(Retry(Term))
  /\ failures' = failures + 1
  /\ UNCHANGED <<isExecutingCommand, evars, cvars, kvars, server, userOff>>

(* the socket of a session that failed to authenticate is closed *)
SessionEnds ==
  /\ link = "half"
  /\ link' = "down"
  /\ UNCHANGED <<terminalConnected, isReconnecting, reconnectAttempts,
                 reconnectDelay, reconnectTimeout, attempt,
                 isExecutingCommand, failures, scheduled, evars, cvars,
                 kvars, server, userOff>>

(* the user enters /disconnect or Ctrl+D: handleDisconnect().
   controller.disconnect() rejects the auth request of an attempt that is
   authenticating, so the catch branch of attemptReconnect runs next; the
   connect() of an attempt whose socket is still connecting never settles *)
HandleDisconnect ==
  /\ ~isExecutingCommand
  /\ link' = "down"
  /\ attempt' = "none"
  /\ LET T == [Term EXCEPT !.timeout = 0, !.connected = FALSE,
                           !.reconnecting = FALSE]
     IN IF attempt = "authenticating"
          THEN /\ SetTerm(Retry(T))
               /\ scheduled' = Armed(Retry(T))
               /\ failures' = failures + 1
          ELSE /\ SetTerm(T)
               /\ UNCHANGED <<failures, scheduled>>
  /\ userOff' = TRUE
  /\ UNCHANGED <<isExecutingCommand, evars, cvars, kvars, server>>

TerminalNext ==
  \/ ExecuteCommand
  \/ CommandResolves
  \/ CommandFails
  \/ ConnectionLost
  \/ ServerStops
  \/ ServerStarts
  \/ ReconnectTimer
  \/ ManualReconnect
  \/ AttemptTcp
  \/ ConnectSucceeds
  \/ ConnectFails
  \/ SessionEnds
  \/ HandleDisconnect

TerminalSpec == Init /\ [][TerminalNext]_vars

(* timers and the completions of pending calls happen; the user need not
   act and the connection need not break *)
TerminalFairSpec ==
  /\ TerminalSpec
  /\ WF_vars(ReconnectTimer)
  /\ WF_vars(CommandResolves \/ CommandFails)
  /\ WF_vars(AttemptTcp \/ ConnectSucceeds \/ ConnectFails)

(* C25: when the established connection is lost, the terminal on its own
   leaves the state in which it takes itself for connected and comes to a
   reconnection attempt, with no input from the user *)
C25_AutoReconnect ==
  (link = "down" /\ terminalConnected) ~> (isReconnecting \/ ~terminalConnected)

(* C26: reconnectAttempts never exceeds maxReconnectAttempts, no more than
   maxReconnectAttempts attempts fail in a row, and after the last of them
   neither an attempt nor a retry timer is pending until /reconnect *)
C26_AttemptsBounded ==
  /\ reconnectAttempts <= maxReconnectAttempts
  /\ failures <= maxReconnectAttempts
  /\ failures = maxReconnectAttempts =>
       /\ reconnectTimeout = 0
       /\ ~isReconnecting
       /\ reconnectAttempts = 0

(* the fifth attempt in a row has failed *)
C26_Witness ==
  /\ failures = maxReconnectAttempts
  /\ ~userOff
  /\ Len(scheduled) = maxReconnectAttempts - 1

(* C27: the retry timer armed after the n-th failed attempt of a cycle has
   the delay 2000 * 2^(n-1) ms; reconnectDelay stays within 2000..32000 and
   is doubled by a failed attempt that is retried; it is 2000 after a
   successful reconnect, after giving up and after /reconnect *)
C27_Backoff ==
  /\ [](/\ reconnectDelay >= InitialDelay
        /\ reconnectDelay <= MaxDelay
        /\ \A n \in 1 .. Len(scheduled) :
             scheduled[n] = InitialDelay * 2 ^ (n - 1))
  /\ [][/\ (failures' = failures + 1 /\ reconnectTimeout' # 0) =>
             /\ reconnectTimeout' = reconnectDelay
             /\ reconnectDelay' = Min2(2 * reconnectDelay, MaxDelay)
        /\ (failures' = failures + 1 /\ reconnectTimeout' = 0) =>
             reconnectDelay' = InitialDelay
        /\ (terminalConnected' /\ ~terminalConnected) =>
             reconnectDelay' = InitialDelay
        /\ ManualReconnect => reconnectDelay' = InitialDelay]_vars

(* four attempts of one cycle have failed and the fifth is to start after
   16000 ms *)
C27_Witness ==
  /\ scheduled = <<2000, 4000, 8000, 16000>>
  /\ reconnectTimeout = 16000
  /\ reconnectDelay = 32000
  /\ reconnectAttempts = 4

(* ---- handlePacket: sentinel, main and auth packets ---- *)

(* C28: a RESPONSE packet whose id is the sentinel id of a send() whose
   main and sentinel entries are pending resolves that send() in the same
   step with the concatenation of the fragments accumulated so far,
   whatever the body of the sentinel response *)
C28_SentinelResolves ==
  [][\A p \in Packets : \A r \in PendingMains :
       (/\ Data(p)
        /\ p.type = RESPONSE
        /\ p.id = reqs[r].dummy
        /\ p.id \in DOMAIN pendingRequests)
         => sendCalls'[r] =
              Append(sendCalls[r], Resolve(Join(pendingRequests[r].fragments)))]_vars

(* C29: a RESPONSE packet whose id is the main id of a pending send() is
   appended to the fragments of that request and neither settles the send()
   nor removes its entry, whatever its body and the command text *)
C29_MainOnlyAccumulates ==
  [][\A p \in Packets : \A r \in PendingMains :
       (/\ Data(p)
        /\ p.type = RESPONSE
        /\ p.id = r)
         => /\ sendCalls'[r] = sendCalls[r]
            /\ r \in DOMAIN pendingRequests'
            /\ pendingRequests'[r].fragments =
                 Append(pendingRequests[r].fragments, p.body)]_vars

(* the auth entry, while authenticate() is unsettled *)
AuthId == CHOOSE i \in DOMAIN pendingRequests : pendingRequests[i].kind = "auth"

(* C30: while the auth request is pending on an open socket, handlePacket
   answers a packet of type AUTH_RESPONSE with the auth id, or with an id
   that has no pending entry, by setting authenticated and resolving
   connect(); it answers a packet of type RESPONSE with the auth id by
   leaving the session unauthenticated and connect() unsettled *)
C30_AuthResponse ==
  (AuthPending /\ sock = "open") =>
    \A p \in Packets :
      LET S == HandlePacket(Cur, p) IN
      /\ (/\ p.type = AUTH_RESPONSE
          /\ p.id # -1
          /\ (p.id = AuthId \/ p.id \notin DOMAIN pendingRequests))
           => /\ S.authenticated
              /\ S.authCalls = <<Resolve(EmptyStr)>>
              /\ S.connectCalls = <<Resolve(EmptyStr)>>
      /\ (p.type = RESPONSE /\ p.id = AuthId)
           => /\ ~S.authenticated
              /\ S.authCalls = <<>>
              /\ S.connectCalls = connectCalls

(* the session was authenticated by a packet of type AUTH_RESPONSE whose id
   had no pending entry: connect() is resolved and the auth entry is gone *)
C30_Witness ==
  /\ authenticated
  /\ connectCalls = <<Resolve(EmptyStr)>>
  /\ AuthEntries(Cur) = {}
  /\ Mains = {}
  /\ pkts = 1
  /\ sock = "open"

(* ---- packets written on the connection ---- *)

(* C31: at most one AUTH packet is written, exactly one while the socket is
   connected, and it is the first packet; a COMMAND packet is written
   only in a state in which authenticate() has resolved, the session is
   authenticated and holds its socket, and no 'close' has been emitted *)
C31_AuthFirst ==
  /\ [](/\ AuthWrites <= 1
        /\ sock = "open" => AuthWrites = 1
        /\ \A i \in 1 .. Len(written) : (written[i].type = AUTH) <=> (i = 1))
  /\ [][\A i \in (Len(written) + 1) .. Len(written') :
          written'[i].type = COMMAND =>
            /\ authCalls # <<>> /\ Head(authCalls) = Resolve(EmptyStr)
            /\ authenticated
            /\ socket
            /\ sock = "open"
            /\ emitted.close = 0]_vars

(* a send() wrote its two packets after the AUTH packet, the socket then
   closed and a later send() was refused *)
C31_Witness ==
  /\ Len(written) = 3
  /\ written[1].type = AUTH
  /\ sock = "closed"
  /\ notReady = 1

(* C32: after the AUTH packet the written packets are, for the send() calls
   in call order, the COMMAND packet with the main id and the command text
   directly followed by the COMMAND packet with the sentinel id and an
   empty body *)
C32_PairsInOrder ==
  /\ [](/\ Len(written) = AuthWrites + 2 * Cardinality(Mains)
        /\ \A k \in 1 .. Cardinality(Mains) :
             LET r == written[2 * k].id IN
             /\ r \in Mains
             /\ written[2 * k] = [id |-> r, type |-> COMMAND,
                                  body |-> reqs[r].command]
             /\ written[2 * k + 1] = [id |-> reqs[r].dummy, type |-> COMMAND,
                                      body |-> EmptyStr]
             /\ k > 1 => written[2 * k - 2].id < r)
  /\ [][\A c \in Commands :
          (Send(c) /\ SendReady) =>
            /\ Len(written') = Len(written) + 2
            /\ SubSeq(written', 1, Len(written)) = written
            /\ written'[Len(written) + 1] =
                 [id |-> requestId + 1, type |-> COMMAND, body |-> c]
            /\ written'[Len(written) + 2] =
                 [id |-> requestId + 2, type |-> COMMAND, body |-> EmptyStr]]_vars

(* two send() calls are outstanding: five packets written *)
C32_Witness ==
  /\ Len(written) = 5
  /\ Cardinality(PendingMains) = 2
  /\ written[4].body # EmptyStr

(* ---- request ids ---- *)

(* the ids allocated so far, in allocation order: every allocated id is
   written in one packet *)
Allocated == [i \in 1 .. Len(written) |-> written[i].id]

(* C33: the counter never decreases; the ids allocated in a session are
   strictly increasing, so they differ pairwise, and none is -1; the two
   ids of a send() are new, differ from each other, from the auth id and
   from the id of every pending entry *)
C33_FreshIds ==
  /\ [](/\ \A i, j \in 1 .. Len(written) : i < j => Allocated[i] < Allocated[j]
        /\ \A i \in 1 .. Len(written) : Allocated[i] >= 1
        /\ \A i \in DOMAIN pendingRequests : i <= requestId)
  /\ [][/\ requestId' >= requestId
        /\ \A r \in Mains' \ Mains :
             /\ r > requestId
             /\ reqs'[r].dummy > requestId
             /\ reqs'[r].dummy # r
             /\ {r, reqs'[r].dummy} \cap DOMAIN pendingRequests = {}
             /\ {r, reqs'[r].dummy} \subseteq DOMAIN pendingRequests'
             /\ \A i \in 1 .. Len(written) :
                  written[i].id \notin {r, reqs'[r].dummy}]_vars

(* a send() allocated its ids while an earlier send() was pending *)
C33_Witness ==
  /\ Cardinality(PendingMains) = 2
  /\ requestId = 5
  /\ DOMAIN pendingRequests = {2, 3, 4, 5}

(* ---- contents of the pending map ---- *)

(* C34: the pending map has no entry for a send() whose promise has been
   settled, and no auth entry once authenticate() has been settled *)
C34_OnlyUnsettled ==
  /\ \A r \in Mains :
       Settled(r) => {r, reqs[r].dummy} \cap DOMAIN pendingRequests = {}
  /\ authCalls # <<>> =>
       \A i \in DOMAIN pendingRequests : pendingRequests[i].kind # "auth"

(* C35: handleData returns on every input, and a call of handleData takes at
   least four bytes off the buffered input for every packet it extracts *)
C35_Terminates ==
  /\ [](~hung)
  /\ [][\A n \in 1 .. Len(stream) :
          Chunk(n) =>
            Len(responseBuffer) + n - Len(responseBuffer')
              >= 4 * ((parseErrors' - parseErrors)
                        + (Len(dispatched') - Len(dispatched)))]_vars

(* C36: in every reachable state the main entry and the sentinel entry of a
   send() are in the pending map together or absent together, and each is
   the entry the send() created *)
C36_PairTogether ==
  \A r \in Mains :
    /\ (r \in DOMAIN pendingRequests) <=> (reqs[r].dummy \in DOMAIN pendingRequests)
    /\ r \in DOMAIN pendingRequests =>
         /\ pendingRequests[r].kind = "main"
         /\ pendingRequests[reqs[r].dummy].kind = "dummy"
         /\ pendingRequests[reqs[r].dummy].main = r

C36_Witness ==
  \E r, q \in Mains :
    /\ r # q
    /\ Settled(r)
    /\ {r, reqs[r].dummy} \cap DOMAIN pendingRequests = {}
    /\ {q, reqs[q].dummy} \subseteq DOMAIN pendingRequests

(* C37: once authentication has succeeded, handlePacket leaves every pending
   send() alone when the packet has the id -1 or an id with no pending
   entry: no send() is resolved or rejected, the entries and fragment lists
   of the pending send() calls stay as they are, and authenticated stays
   set, whatever the command texts of the pending requests *)
C37_StrayPacketInert ==
  (authenticated /\ sock = "open") =>
    \A p \in Packets :
      (p.id = -1 \/ p.id \notin DOMAIN pendingRequests) =>
        LET S == HandlePacket(Cur, p) IN
        /\ S.sendCalls = sendCalls
        /\ S.authenticated
        /\ \A r \in PendingMains :
             \A i \in {r, reqs[r].dummy} :
               /\ i \in DOMAIN S.pending
               /\ S.pending[i].fragments = pendingRequests[i].fragments

(* C38: from a disconnect by the user (/disconnect or Ctrl+D) until the next
   /reconnect, no retry timer is armed and no reconnect attempt is running,
   also when the disconnect came while an attempt was in flight or a timer
   was armed *)
C38_StaysDisconnected ==
  userOff =>
    /\ reconnectTimeout = 0
    /\ scheduled = <<>>
    /\ ~isReconnecting
    /\ attempt = "none"
    /\ ~terminalConnected

(* C39: in every reachable state isConnected() is true exactly when a send()
   issued in that state is accepted (it allocates its ids and writes its
   packets) and false exactly when the send() is refused as not connected;
   it is false once the socket has closed, although the close handler keeps
   the socket handle *)
C39_IsConnectedMeansSendable ==
  /\ [](/\ isConnected <=> SendReady
        /\ sock = "closed" => ~isConnected)
  /\ [][\A c \in Commands :
          Send(c) =>
            /\ isConnected <=> (notReady' = notReady /\ Len(written') = Len(written) + 2)
            /\ ~isConnected <=> (notReady' = notReady + 1 /\ written' = written)]_vars

(* the socket has closed with the handle kept, and a send() was refused *)
C39_Witness ==
  /\ sock = "closed"
  /\ socket
  /\ ~isConnected
  /\ notReady = 1
  /\ Mains # {}

(* C40: the step that rejects connect() for a failed or timed-out
   authentication leaves the socket open and held, emits no 'close' and
   leaves the session unauthenticated; from then on the socket stays open
   and held and the session unauthenticated in every step that is not
   disconnect(), the close of the socket or a socket error *)
C40_RejectedConnectKeepsSocket ==
  /\ [][(/\ AuthPending
         /\ (AuthTimeout \/ \E p \in Packets : Data(p) /\ p.id = -1))
          => /\ Head(connectCalls').kind = "reject"
             /\ socket' /\ sock' = "open"
             /\ ~authenticated'
             /\ emitted' = emitted]_vars
  /\ [][(/\ AuthFailed \/ AuthTimedOut
         /\ socket /\ sock = "open"
         /\ ~(Disconnect \/ Close \/ SocketError))
          => socket' /\ sock' = "open" /\ ~authenticated']_vars
  /\ []((AuthFailed \/ AuthTimedOut) =>
          /\ ~authenticated
          /\ (socket /\ sock = "open") \/ sock \in {"errored", "closed", "destroyed"})

(* connect() was rejected for authentication, the socket is still open and
   held, and a send() has been refused on it since *)
C40_Witness ==
  /\ AuthFailed \/ AuthTimedOut
  /\ Head(connectCalls).kind = "reject"
  /\ socket /\ sock = "open"
  /\ ~authenticated
  /\ emitted.close = 0
  /\ notReady = 1

====
